---- MODULE Spec2Model ----
(***************************************************************************)
(* Model of src/app.py, the marine sensor network simulator: node          *)
(* generation, one-pass clustering, the greedy nearest-neighbour route     *)
(* and the per-node link cost loop.                                        *)
(*                                                                         *)
(* Numbers.  The script computes in floating point; the model computes in  *)
(* fixed point, with one integer unit per quantity:                        *)
(*     distances  in millimetres          (10^-3 m)                        *)
(*     delays     in nanoseconds          (10^-9 s)                        *)
(*     energies   in millionths of a unit (10^-6)                          *)
(* so that round(d,2), round(delay,6) and round(energy,3) of line 105 are  *)
(* real roundings (to 10 mm, 1000 ns and 1000 micro-units) and not the     *)
(* identity.  The node coordinates are kept close enough to the base       *)
(* station for every intermediate value to fit TLC's 32-bit integers.      *)
(*                                                                         *)
(* Inputs.  The pipeline of lines 26-105 is modelled for any configuration *)
(* handed to it (num_nodes, area_size, network_type, enable_cluster and    *)
(* the SOFAR checkbox); the random draw of line 27 is a nondeterministic   *)
(* choice of in-range integer coordinates.                                 *)
(***************************************************************************)
EXTENDS Integers, Sequences, FiniteSets, TLC

\* Largest node count whose every node layout over Grid is explored.
MaxNodes == 4

\* A larger node count (num_nodes \div 4 > 2), explored on sample layouts.
LargeCount == 12

NodeCounts == (-1 .. MaxNodes) \cup {LargeCount}

AreaSizes == {100, 200}

NetworkTypes == {"RF Telemetry", "Cabled / Fiber", "Acoustic"}

\* The coordinates the random draw is sampled over.
GridSeq == << <<90, 50>>, <<110, 50>>, <<100, 50>>, <<100, 60>>, <<90, 60>> >>

Grid == {GridSeq[i] : i \in 1..Len(GridSeq)}

VARIABLES num_nodes, area_size, network_type, enable_cluster, sofar_checkbox,
          enable_sofar, nodes, base_station,
          k, cluster_centers, clusters, ci,
          remaining, route, current,
          ni, d, energy, delay, total_energy, total_delay, sync_overhead, results,
          pc

vars == <<num_nodes, area_size, network_type, enable_cluster, sofar_checkbox,
          enable_sofar, nodes, base_station, k, cluster_centers, clusters, ci,
          remaining, route, current, ni, d, energy, delay, total_energy,
          total_delay, sync_overhead, results, pc>>

config == <<num_nodes, area_size, network_type, enable_cluster, sofar_checkbox, enable_sofar>>
clusterVars == <<k, cluster_centers, clusters, ci>>
routeVars == <<remaining, route, current>>
commVars == <<ni, d, energy, delay, total_energy, total_delay, sync_overhead, results>>

----------------------------------------------------------------------------
\* Arithmetic helpers

Max(a, b) == IF a >= b THEN a ELSE b

Min(a, b) == IF a <= b THEN a ELSE b

\* Largest r in lo..hi with r * r <= n (lo * lo <= n is assumed).
RECURSIVE SqrtSearch(_, _, _)
SqrtSearch(n, lo, hi) ==
    IF lo >= hi THEN lo
    ELSE LET mid == (lo + hi + 1) \div 2
         IN IF mid * mid <= n THEN SqrtSearch(n, mid, hi)
                              ELSE SqrtSearch(n, lo, mid - 1)

ISqrt(n) == SqrtSearch(n, 0, 46340)

\* The square root, in millimetres, of every squared distance (in m^2) whose
\* millimetre form fits 32 bits; computed once.
SqrtTable == [q \in 0..(2147483647 \div 1000000) |-> ISqrt(q * 1000000)]

\* math.dist(a, b), in millimetres.
distance(a, b) ==
    SqrtTable[(a[1] - b[1]) * (a[1] - b[1]) + (a[2] - b[2]) * (a[2] - b[2])]

\* round(x, ndigits): x to the nearest multiple of m, a half going to the even one.
RoundTo(x, m) ==
    LET q == x \div m
        r == x % m
    IN  IF 2 * r < m THEN q * m
        ELSE IF 2 * r > m THEN (q + 1) * m
        ELSE IF q % 2 = 0 THEN q * m ELSE (q + 1) * m

----------------------------------------------------------------------------
\* Sidebar (lines 13-24)

\* enable_sofar: False unless the Acoustic type shows the SOFAR checkbox.
EnableSofar(nt, checkbox) == IF nt = "Acoustic" THEN checkbox ELSE FALSE

----------------------------------------------------------------------------
\* Node generation (lines 26-28)

\* np.random.randint(50, area_size-50, ...): the integers of [50, area_size-50).
InRange(area) ==
    {p \in Grid : 50 <= p[1] /\ p[1] < area - 50 /\ 50 <= p[2] /\ p[2] < area - 50}

\* Sample layouts of LargeCount nodes: the grid walked with stride a from offset b.
SampleLayouts ==
    {[i \in 1..LargeCount |-> GridSeq[((a * i + b) % Len(GridSeq)) + 1]] :
        a \in 1..(Len(GridSeq) - 1), b \in 0..(Len(GridSeq) - 1)}

\* The (num_nodes, 2) arrays the draw can return.
NodeSets(n, area) ==
    IF n = LargeCount
    THEN {l \in SampleLayouts : \A i \in 1..n : l[i] \in InRange(area)}
    ELSE [1..n -> InRange(area)]

\* randint raises ValueError: a negative size, or an empty range low >= high.  With
\* size 0 numpy returns the empty array before it looks at the range; older
\* releases look at the range first, so both outcomes are kept for that case.
GenerateRaises(n, area) == n < 0 \/ (n >= 1 /\ 50 >= area - 50)

GenerateMayRaise(n, area) == n = 0 /\ 50 >= area - 50

BaseStation(area) == <<area \div 2, 20>>

----------------------------------------------------------------------------
\* Clustering (lines 36-51)

NumClusters(n) == Max(2, n \div 4)

\* nodes[:kk]: the first kk rows, fewer when there are fewer nodes.
FirstNodes(ns, kk) == SubSeq(ns, 1, Min(kk, Len(ns)))

\* np.argmin / min(..., key=): the 1-based position of the first least value.
RECURSIVE FirstMinFrom(_, _, _)
FirstMinFrom(s, i, best) ==
    IF i > Len(s) THEN best
    ELSE FirstMinFrom(s, i + 1, IF s[i] < s[best] THEN i ELSE best)

FirstMin(s) == FirstMinFrom(s, 2, 1)

\* The position of the last least value: ties go to the later element.
RECURSIVE LastMinFrom(_, _, _)
LastMinFrom(s, i, best) ==
    IF i > Len(s) THEN best
    ELSE LastMinFrom(s, i + 1, IF s[i] <= s[best] THEN i ELSE best)

\* An assignment that resolves ties to the highest cluster index.
NearestCenterLast(node, centers) ==
    LastMinFrom([j \in 1..Len(centers) |-> distance(node, centers[j])], 2, 1) - 1

\* cid of line 50, a key of clusters (0-based).
NearestCenter(node, centers) ==
    FirstMin([j \in 1..Len(centers) |-> distance(node, centers[j])]) - 1

----------------------------------------------------------------------------
\* Routing (lines 56-67)

\* A selection that resolves ties to the node latest in remaining.
NearestIndexLast(rem, cur) ==
    LastMinFrom([j \in 1..Len(rem) |-> distance(cur, rem[j])], 2, 1)

\* min(remaining, key=lambda p: distance(current, p)), as a position of remaining.
NearestIndex(rem, cur) ==
    FirstMin([j \in 1..Len(rem) |-> distance(cur, rem[j])])

\* A removal that drops every element equal to x, not only the first.
RemoveAll(s, x) == SelectSeq(s, LAMBDA e : e # x)

\* list.remove(x): the list without its first element equal to x.
RECURSIVE RemoveFirst(_, _)
RemoveFirst(s, x) ==
    IF s = <<>> THEN <<>>
    ELSE IF Head(s) = x THEN Tail(s)
    ELSE <<Head(s)>> \o RemoveFirst(Tail(s), x)

----------------------------------------------------------------------------
\* Communication model (lines 79-105)

\* speed, in m/s.
Speed(nt) ==
    CASE nt = "RF Telemetry" -> 300000000
      [] nt = "Cabled / Fiber" -> 200000000
      [] OTHER -> 1500

\* energy = d * coefficient: millimetres to millionths of a unit.
Energy(nt, dist) ==
    CASE nt = "RF Telemetry" -> dist * 60
      [] nt = "Cabled / Fiber" -> dist * 15
      [] OTHER -> dist * 120

\* The sync constants with the acoustic one a digit short (0.0002 s).
SyncShort(nt) ==
    CASE nt = "RF Telemetry" -> 20000
      [] nt = "Cabled / Fiber" -> 10000
      [] OTHER -> 200000

\* sync, in nanoseconds.
Sync(nt) ==
    CASE nt = "RF Telemetry" -> 20000
      [] nt = "Cabled / Fiber" -> 10000
      [] OTHER -> 2000000

\* A discount read from the checkbox itself and applied whatever the transport.
BranchDistanceAnyType(nt, sofar, dist) ==
    IF sofar_checkbox THEN (dist * 8) \div 10 ELSE dist

\* d after the branch of lines 82-98: d * 0.8 in the acoustic branch under SOFAR.
BranchDistance(nt, sofar, dist) ==
    IF nt \notin {"RF Telemetry", "Cabled / Fiber"} /\ sofar
    THEN (dist * 8) \div 10
    ELSE dist

\* d / speed: millimetres over m/s to nanoseconds, dist * 10^6 / speed, with the
\* factor 500 taken out of both sides to stay within 32 bits.
Delay(dist, speed) == (dist * 2000) \div (speed \div 500)

\* A cost step that applies the SOFAR discount before the energy is taken.
LinkCostDiscountFirst(nt, sofar, d0) ==
    LET d1 == BranchDistance(nt, sofar, d0)
    IN  [d |-> d1, energy |-> Energy(nt, d1), delay |-> Delay(d1, Speed(nt))]

\* Lines 80-100 for one node at distance d0: the energy is taken before the SOFAR
\* discount overwrites d, the delay after it.
LinkCost(nt, sofar, d0) ==
    LET en == Energy(nt, d0)
        d1 == BranchDistance(nt, sofar, d0)
    IN  [d |-> d1, energy |-> en, delay |-> Delay(d1, Speed(nt))]

\* The tuple appended to results at line 105.
Rounded(dist, dly, en) == <<RoundTo(dist, 10), RoundTo(dly, 1000), RoundTo(en, 1000)>>

----------------------------------------------------------------------------
\* The run

Init ==
    /\ num_nodes \in NodeCounts
    /\ area_size \in AreaSizes
    /\ network_type \in NetworkTypes
    /\ enable_cluster \in BOOLEAN
    /\ sofar_checkbox \in BOOLEAN
    /\ enable_sofar = EnableSofar(network_type, sofar_checkbox)
    /\ nodes = <<>>
    /\ base_station = <<0, 0>>
    /\ k = 0
    /\ cluster_centers = <<>>
    /\ clusters = <<>>
    /\ ci = 0
    /\ remaining = <<>>
    /\ route = <<>>
    /\ current = <<0, 0>>
    /\ ni = 0
    /\ d = 0
    /\ energy = 0
    /\ delay = 0
    /\ total_energy = 0
    /\ total_delay = 0
    /\ sync_overhead = 0
    /\ results = <<>>
    /\ pc = "generate"

\* Lines 26-28.
Generate ==
    /\ pc = "generate"
    /\ ~GenerateRaises(num_nodes, area_size)
    /\ nodes' \in NodeSets(num_nodes, area_size)
    /\ base_station' = BaseStation(area_size)
    /\ pc' = "cluster_init"
    /\ UNCHANGED <<config, clusterVars, routeVars, commVars>>

\* Line 27 raising ValueError: the script stops.
GenerateError ==
    /\ pc = "generate"
    /\ GenerateRaises(num_nodes, area_size) \/ GenerateMayRaise(num_nodes, area_size)
    /\ pc' = "error"
    /\ UNCHANGED <<config, nodes, base_station, clusterVars, routeVars, commVars>>

\* Lines 36-46.
ClusterInit ==
    /\ pc = "cluster_init"
    /\ IF enable_cluster
       THEN /\ k' = NumClusters(num_nodes)
            /\ cluster_centers' = FirstNodes(nodes, NumClusters(num_nodes))
            /\ clusters' = [i \in 0..(NumClusters(num_nodes) - 1) |-> <<>>]
            /\ ci' = 1
            /\ pc' = "cluster"
       ELSE /\ pc' = "route_init"
            /\ UNCHANGED clusterVars
    /\ UNCHANGED <<config, nodes, base_station, routeVars, commVars>>

\* A clustering step that leaves the centers themselves out of the member lists.
ClusterStepSkipCenters ==
    /\ pc = "cluster"
    /\ ci <= Len(nodes)
    /\ LET cid == NearestCenter(nodes[ci], cluster_centers)
       IN clusters' = IF ci <= Len(cluster_centers)
                      THEN clusters
                      ELSE [clusters EXCEPT ![cid] = Append(@, nodes[ci])]
    /\ ci' = ci + 1
    /\ UNCHANGED <<config, nodes, base_station, k, cluster_centers, routeVars, commVars, pc>>

\* Lines 48-51, one node.
ClusterStep ==
    /\ pc = "cluster"
    /\ ci <= Len(nodes)
    /\ LET cid == NearestCenter(nodes[ci], cluster_centers)
       IN clusters' = [clusters EXCEPT ![cid] = Append(@, nodes[ci])]
    /\ ci' = ci + 1
    /\ UNCHANGED <<config, nodes, base_station, k, cluster_centers, routeVars, commVars, pc>>

\* The loop of line 48 exhausted.
ClusterDone ==
    /\ pc = "cluster"
    /\ ci > Len(nodes)
    /\ pc' = "route_init"
    /\ UNCHANGED <<config, nodes, base_station, clusterVars, routeVars, commVars>>

\* Lines 57-59.
RouteInit ==
    /\ pc = "route_init"
    /\ remaining' = nodes
    /\ route' = <<base_station>>
    /\ current' = base_station
    /\ pc' = "route"
    /\ UNCHANGED <<config, nodes, base_station, clusterVars, commVars>>

\* Lines 61-65, one iteration.
RouteStep ==
    /\ pc = "route"
    /\ remaining # <<>>
    /\ LET nearest == remaining[NearestIndex(remaining, current)]
       IN /\ route' = Append(route, nearest)
          /\ remaining' = RemoveFirst(remaining, nearest)
          /\ current' = nearest
    /\ UNCHANGED <<config, nodes, base_station, clusterVars, commVars, pc>>

\* Line 61 with remaining empty, line 67, and lines 74-77.
RouteDone ==
    /\ pc = "route"
    /\ remaining = <<>>
    /\ results' = <<>>
    /\ total_energy' = 0
    /\ total_delay' = 0
    /\ sync_overhead' = 0
    /\ ni' = 1
    /\ pc' = "comm"
    /\ UNCHANGED <<config, nodes, base_station, clusterVars, routeVars, d, energy, delay>>

\* Lines 79-105, one node.
CommStep ==
    /\ pc = "comm"
    /\ ni <= Len(nodes)
    /\ LET c == LinkCost(network_type, enable_sofar, distance(nodes[ni], base_station))
       IN /\ d' = c.d
          /\ energy' = c.energy
          /\ delay' = c.delay
          /\ total_energy' = total_energy + c.energy
          /\ total_delay' = total_delay + c.delay
          /\ sync_overhead' = sync_overhead + Sync(network_type)
          /\ results' = Append(results, Rounded(c.d, c.delay, c.energy))
    /\ ni' = ni + 1
    /\ UNCHANGED <<config, nodes, base_station, clusterVars, routeVars, pc>>

\* The loop of line 79 exhausted: the figures are shown.
CommDone ==
    /\ pc = "comm"
    /\ ni > Len(nodes)
    /\ pc' = "done"
    /\ UNCHANGED <<config, nodes, base_station, clusterVars, routeVars, commVars>>

Next ==
    \/ Generate
    \/ GenerateError
    \/ ClusterInit
    \/ ClusterStep
    \/ ClusterDone
    \/ RouteInit
    \/ RouteStep
    \/ RouteDone
    \/ CommStep
    \/ CommDone

Spec == Init /\ [][Next]_vars

----------------------------------------------------------------------------
\* Properties

\* How many times x occurs in the sequence s.
Count(s, x) == Cardinality({i \in DOMAIN s : s[i] = x})

Range(s) == {s[i] : i \in DOMAIN s}

RECURSIVE SumSeq(_)
SumSeq(s) == IF s = <<>> THEN 0 ELSE Head(s) + SumSeq(Tail(s))

ValidConfiguration == num_nodes >= 1 /\ area_size > 100

\* build_route has returned.
RouteBuilt == pc \in {"comm", "done"}

\* The assignment loop of lines 48-51 has run to its end.
ClustersBuilt == enable_cluster /\ pc \in {"route_init", "route", "comm", "done"}

\* C1: for every valid configuration the route that build_route returns has
\* num_nodes + 1 elements, starts with the base station, and its other elements
\* are the generated nodes, each as often as it was generated: a permutation of
\* the nodes, none repeated and none missing.
C1_RouteIsPermutation ==
    (ValidConfiguration /\ RouteBuilt) =>
        /\ Len(route) = num_nodes + 1
        /\ route[1] = base_station
        /\ \A p \in Range(nodes) \cup Range(Tail(route)) :
              Count(Tail(route), p) = Count(nodes, p)

\* A finished route over a layout with two nodes at the same coordinates, visited
\* in another order than the generation order.
C1_Witness ==
    /\ ValidConfiguration
    /\ pc = "done"
    /\ \E i, j \in DOMAIN nodes : i < j /\ nodes[i] = nodes[j]
    /\ Tail(route) # nodes

\* The members of every cluster, one after the other.
RECURSIVE AllMembers(_, _)
AllMembers(cl, c) ==
    IF c \notin DOMAIN cl THEN <<>> ELSE cl[c] \o AllMembers(cl, c + 1)

\* C2: with clustering enabled, after the assignment loop the member lists are a
\* partition of the nodes: every generated node is in exactly one member list,
\* and the member lists hold nothing else.
C2_ClustersPartitionNodes ==
    ClustersBuilt =>
        /\ Len(AllMembers(clusters, 0)) = Len(nodes)
        /\ \A p \in Range(nodes) \cup Range(AllMembers(clusters, 0)) :
              Count(AllMembers(clusters, 0), p) = Count(nodes, p)

\* Clustering finished with at least two non-empty clusters and a node that is
\* not a center.
C2_Witness ==
    /\ ClustersBuilt
    /\ pc = "done"
    /\ Len(nodes) > Len(cluster_centers)
    /\ \E a, b \in DOMAIN clusters : a # b /\ clusters[a] # <<>> /\ clusters[b] # <<>>

\* The true distance from node i to the base station, in millimetres.
TrueDistance(i) == distance(nodes[i], base_station)

\* The node the cost loop has just processed, when it has processed one.
LastProcessed == ni - 1

CostComputed == pc \in {"comm", "done"} /\ LastProcessed >= 1

\* C3: for the acoustic transport and every node, the energy the loop computes is
\* 0.12 x the true distance to the base station with SOFAR on or off, and the
\* delay is (0.8 x true distance) / 1500 with SOFAR on and true distance / 1500
\* with SOFAR off.  (120 micro-units per mm; 10^6 / 1500 = 2000 / 3 ns per mm.)
C3_AcousticEnergyAndDelay ==
    (network_type = "Acoustic" /\ CostComputed) =>
        /\ energy = 120 * TrueDistance(LastProcessed)
        /\ delay = IF enable_sofar
                   THEN (((8 * TrueDistance(LastProcessed)) \div 10) * 2000) \div 3
                   ELSE (TrueDistance(LastProcessed) * 2000) \div 3

\* An acoustic run under SOFAR that has processed a node whose discounted delay
\* differs from the undiscounted one.
C3_Witness ==
    /\ network_type = "Acoustic"
    /\ enable_sofar
    /\ CostComputed
    /\ delay # (TrueDistance(LastProcessed) * 2000) \div 3
    /\ energy = 120 * TrueDistance(LastProcessed)

\* C4: the distance recorded for each node is the full distance from the node to
\* the base station (as round(d, 2) records it) for every transport, SOFAR
\* included: the 0.8 discount never reaches the recorded distance.
C4_RecordedDistanceIsFull ==
    \A i \in DOMAIN results : results[i][1] = RoundTo(TrueDistance(i), 10)

\* The column of results at position col, as a sequence.
Column(col) == [i \in DOMAIN results |-> results[i][col]]

\* The fixed sync constant of each transport, in nanoseconds.
SyncConstant ==
    CASE network_type = "RF Telemetry" -> 20000
      [] network_type = "Cabled / Fiber" -> 10000
      [] network_type = "Acoustic" -> 2000000

\* C5 as stated: after the cost loop, total_delay and total_energy are the sums
\* of the recorded (rounded) delay and energy values, and the sync overhead is
\* num_nodes x the sync constant of the transport.
C5_TotalsAreSumsOfRecorded ==
    pc = "done" =>
        /\ total_delay = SumSeq(Column(2))
        /\ total_energy = SumSeq(Column(3))
        /\ sync_overhead = num_nodes * SyncConstant

\* The delay and the energy the loop computes for node i, before any rounding.
NodeDelay(i) ==
    Delay(BranchDistance(network_type, enable_sofar, TrueDistance(i)), Speed(network_type))

NodeEnergy(i) == Energy(network_type, TrueDistance(i))

Abs(x) == IF x < 0 THEN -x ELSE x

\* C5 amended: after the cost loop, total_delay and total_energy are the sums of
\* the unrounded per-node delay and energy values; the recorded values are these
\* rounded (6 and 3 decimals), so the sum of the recorded values is within half a
\* unit of the last decimal per node of the total; and the sync overhead is
\* num_nodes x the sync constant of the transport.
C5_TotalsAreSumsOfComputed ==
    pc = "done" =>
        /\ total_delay = SumSeq([i \in DOMAIN nodes |-> NodeDelay(i)])
        /\ total_energy = SumSeq([i \in DOMAIN nodes |-> NodeEnergy(i)])
        /\ Len(results) = num_nodes
        /\ \A i \in DOMAIN results :
              /\ results[i][2] = RoundTo(NodeDelay(i), 1000)
              /\ results[i][3] = RoundTo(NodeEnergy(i), 1000)
        /\ 2 * Abs(total_delay - SumSeq(Column(2))) <= num_nodes * 1000
        /\ 2 * Abs(total_energy - SumSeq(Column(3))) <= num_nodes * 1000
        /\ sync_overhead = num_nodes * SyncConstant

\* A finished run over several nodes whose totals differ from the sums of the
\* recorded values.
C5_Witness ==
    /\ pc = "done"
    /\ num_nodes >= 2
    /\ total_delay # SumSeq(Column(2))
    /\ total_energy # SumSeq(Column(3))
    /\ sync_overhead > 0

\* C8: for RF and cabled transport the SOFAR option has no effect: every node's
\* recorded distance, delay and energy and the three aggregates are what the
\* transport's own figures give from the full distance, whichever way the SOFAR
\* option was supplied.
C8_SofarIgnoredOffAcoustic ==
    (network_type # "Acoustic" /\ pc \in {"comm", "done"}) =>
        LET perNs == IF network_type = "RF Telemetry" THEN 300 ELSE 200
            coef == IF network_type = "RF Telemetry" THEN 60 ELSE 15
            done == 1..Len(results)
        IN  /\ Len(results) = LastProcessed
            /\ \A i \in done :
                  results[i] = <<RoundTo(TrueDistance(i), 10),
                                 RoundTo(TrueDistance(i) \div perNs, 1000),
                                 RoundTo(coef * TrueDistance(i), 1000)>>
            /\ total_delay = SumSeq([i \in done |-> TrueDistance(i) \div perNs])
            /\ total_energy = SumSeq([i \in done |-> coef * TrueDistance(i)])
            /\ sync_overhead = Len(results) * SyncConstant

\* A finished RF or cabled run that was handed the SOFAR option switched on.
C8_Witness ==
    /\ network_type # "Acoustic"
    /\ sofar_checkbox
    /\ pc = "done"
    /\ num_nodes >= 2
    /\ total_energy > 0

Without(s, j) == SubSeq(s, 1, j - 1) \o SubSeq(s, j + 1, Len(s))

\* C9: every iteration of build_route appends a node of remaining at the least
\* distance from the current position, the earliest in remaining when several
\* are at that distance; that node leaves remaining and becomes the current
\* position; and the loop goes on while remaining is not empty and ends, the
\* route untouched, once it is.
C9_GreedyNearestFirst ==
    [][pc = "route" =>
          IF remaining # <<>>
          THEN \E j \in DOMAIN remaining :
                  /\ \A m \in DOMAIN remaining :
                        distance(current, remaining[j]) <= distance(current, remaining[m])
                  /\ \A m \in 1..(j - 1) :
                        distance(current, remaining[j]) < distance(current, remaining[m])
                  /\ route' = Append(route, remaining[j])
                  /\ remaining' = Without(remaining, j)
                  /\ current' = remaining[j]
                  /\ pc' = "route"
          ELSE /\ pc' # "route"
               /\ route' = route
      ]_vars

\* The route has just taken a node while another node, at other coordinates and
\* at the same distance from the position it was taken from, is still remaining.
C9_Witness ==
    /\ pc = "route"
    /\ Len(route) >= 2
    /\ \E j \in DOMAIN remaining :
          /\ remaining[j] # route[Len(route)]
          /\ distance(route[Len(route) - 1], remaining[j])
                = distance(route[Len(route) - 1], route[Len(route)])

\* Center c (0-based) is the nearest center of point p, the lowest such index.
IsAssigned(p, c) ==
    /\ c + 1 \in DOMAIN cluster_centers
    /\ \A j \in DOMAIN cluster_centers :
          distance(p, cluster_centers[c + 1]) <= distance(p, cluster_centers[j])
    /\ \A j \in 1..c :
          distance(p, cluster_centers[c + 1]) < distance(p, cluster_centers[j])

\* C10: with clustering enabled, the centers are the first k generated nodes and
\* stay so; every node the loop has reached, the centers included, is a member
\* of the cluster whose center is nearest to it, the lowest cluster index on a
\* tie; and every member list is in node generation order.
C10_NearestFixedCenter ==
    (enable_cluster /\ pc \in {"cluster", "route_init", "route", "comm", "done"}) =>
        /\ k = Max(2, num_nodes \div 4)
        /\ cluster_centers = SubSeq(nodes, 1, Min(k, Len(nodes)))
        /\ DOMAIN clusters = 0..(k - 1)
        /\ \A c \in DOMAIN clusters :
              clusters[c] = SelectSeq(SubSeq(nodes, 1, ci - 1), LAMBDA p : IsAssigned(p, c))

\* Clustering finished with a node that lies at the same distance from two
\* centers at different coordinates, and a cluster of several members.
C10_Witness ==
    /\ ClustersBuilt
    /\ pc = "done"
    /\ \E i \in DOMAIN nodes : \E a, b \in DOMAIN cluster_centers :
          /\ cluster_centers[a] # cluster_centers[b]
          /\ distance(nodes[i], cluster_centers[a]) = distance(nodes[i], cluster_centers[b])
          /\ IsAssigned(nodes[i], a - 1)
    /\ \E c \in DOMAIN clusters : Len(clusters[c]) >= 2

====
